---------------------------- MODULE Spec2Model ----------------------------
(***************************************************************************)
(* A state-machine model of division-overtime: the weekly notification     *)
(* flags of notification_utils.py and the batch run of                     *)
(* division_compare_overtime.py:main.                                       *)
(*                                                                         *)
(* The flag directory is the only state that survives a run.  A run is a   *)
(* sequence of steps (pc): start, cleanup, one step per roster employee,   *)
(* snapshot, one step per (division, recipient) of the send loop, summary. *)
(*                                                                         *)
(* Inputs of a step are chosen freely from small sets: the environment     *)
(* (.env) and the calendar at the start of a run, the timesheet answers    *)
(* per employee, the result of every send_message call.  The date does not *)
(* change during a run; the roster file is present and lists each employee *)
(* once; file operations on the flag directory succeed.  A marker file may *)
(* be left empty by an outside fault between runs.                         *)
(***************************************************************************)
EXTENDS Integers, Sequences, FiniteSets, TLC

(***************************************************************************)
(* Bounds of the model.                                                    *)
(***************************************************************************)
\* last day of the clock's horizon (days are numbered from 0)
MaxDay == 4
\* days in a modelled ISO week, weeks in a modelled ISO year
DaysPerWeek == 2
WeeksPerYear == 2
\* runs of main() in one behaviour
MaxRuns == 2
\* marker files an outside fault truncates in one behaviour
MaxCorrupt == 1
\* runs of main() in one behaviour of SpecWeek
WeekRuns == 5

(***************************************************************************)
(* Program constants.                                                      *)
(***************************************************************************)
\* a ladder with a rung at 50 percent
LadderFromFifty == <<50, 60, 70, 80, 90, 100>>

NOTIFY_THRESHOLDS == <<60, 70, 80, 90, 100>>
DEPT_NOTIFY_FORCE_THRESHOLD == 95
OVERTIME_TARGET_DEFAULT == 600
SELF_NOTIFY_FORCE_THRESHOLD == 90
\* get_overtime's None (a failed fetch), distinct from a legitimate 0
ApiNone == -1
\* should_notify's None; Python's "if threshold:" treats it as false
NoThreshold == 0

Thresholds == {NOTIFY_THRESHOLDS[i] : i \in 1..Len(NOTIFY_THRESHOLDS)}

(***************************************************************************)
(* The roster (employeeKey.csv): code, division, contact address.  E1's    *)
(* address is also a division recipient; E2 has no contact address.        *)
(***************************************************************************)
employees ==
    << [code |-> "E1", division_code |-> "D1", email |-> "a@x"],
       [code |-> "E2", division_code |-> "D2", email |-> ""] >>

Codes == {employees[i].code : i \in 1..Len(employees)}

(***************************************************************************)
(* The calendar: datetime.today() is a day number; isocalendar() gives its *)
(* ISO (year, week).  strftime("%Y-%m-%d") writes a date as a one-element  *)
(* text; an empty or damaged file is the empty text, which strptime        *)
(* rejects.                                                                *)
(***************************************************************************)
Days == 0..MaxDay

isocalendar(d) ==
    [year |-> d \div (DaysPerWeek * WeeksPerYear),
     week |-> ((d \div DaysPerWeek) % WeeksPerYear) + 1]

strftime(d) == <<d>>

CanParse(saved) == Len(saved) = 1

strptime(saved) == saved[1]

(***************************************************************************)
(* notification_utils.py: the flag store.  flags is the flag directory: a  *)
(* function from the paths of the files that exist to their contents.      *)
(***************************************************************************)
\* a flag path that leaves the ISO year out
get_flag_path_by_week(employee_code, threshold, now) ==
    <<employee_code, 0, isocalendar(now).week, threshold>>

get_flag_path(employee_code, threshold, now) ==
    <<employee_code, isocalendar(now).year, isocalendar(now).week, threshold>>

\* a lookup that never finds the marker
already_notified_never(fl, employee_code, threshold, now) == FALSE

already_notified_this_week(fl, employee_code, threshold, now) ==
    get_flag_path(employee_code, threshold, now) \in DOMAIN fl

\* a caller that does not mark what it admits
set_notified_flag_skipped(fl, employee_code, threshold, now) == fl

set_notified_flag_today(fl, employee_code, threshold, now) ==
    LET path == get_flag_path(employee_code, threshold, now)
    IN  [p \in (DOMAIN fl) \cup {path} |->
            IF p = path THEN strftime(now) ELSE fl[p]]

\* the test of line 48 on one file: TRUE when the file is removed
IsRemoved(saved, now) ==
    /\ CanParse(saved)
    /\ \/ isocalendar(strptime(saved)).year # isocalendar(now).year
       \/ isocalendar(strptime(saved)).week # isocalendar(now).week

cleanup_old_flags(fl, now) ==
    [p \in {q \in DOMAIN fl : ~IsRemoved(fl[q], now)} |-> fl[p]]

RECURSIVE ScanThresholds(_, _, _, _, _)
ScanThresholds(i, percent_target, employee_code, fl, now) ==
    IF i > Len(NOTIFY_THRESHOLDS) THEN NoThreshold
    ELSE LET threshold == NOTIFY_THRESHOLDS[i]
         IN  IF /\ percent_target >= threshold
                /\ \/ threshold >= DEPT_NOTIFY_FORCE_THRESHOLD
                   \/ ~already_notified_this_week(fl, employee_code, threshold, now)
             THEN threshold
             ELSE ScanThresholds(i + 1, percent_target, employee_code, fl, now)

\* a decision that returns the highest threshold that qualifies
should_notify_highest(percent_target, employee_code, fl, now) ==
    LET qualifying ==
            {t \in Thresholds :
                /\ percent_target >= t
                /\ \/ t >= DEPT_NOTIFY_FORCE_THRESHOLD
                   \/ ~already_notified_this_week(fl, employee_code, t, now)}
    IN  IF qualifying = {} THEN NoThreshold
        ELSE CHOOSE t \in qualifying : \A u \in qualifying : u <= t

should_notify(percent_target, employee_code, fl, now) ==
    ScanThresholds(1, percent_target, employee_code, fl, now)

(***************************************************************************)
(* division_compare_overtime.py: pure helpers.                             *)
(***************************************************************************)
\* round((numerator / denominator) * 100): Python rounds half to even
calculate_percentage(numerator, denominator) ==
    IF denominator = 0 THEN 0
    ELSE LET q == (numerator * 100) \div denominator
             r == (numerator * 100) % denominator
         IN  IF 2 * r < denominator THEN q
             ELSE IF 2 * r > denominator THEN q + 1
             ELSE IF q % 2 = 0 THEN q ELSE q + 1

get_target_overtime(division_code) == OVERTIME_TARGET_DEFAULT

\* OvertimeAnalyzer.analyze: ApiNone when either fetch failed
\* an analysis that takes an answer of 0 minutes for a failed fetch
analyzeFalsy(employee, current_overtime, last_overtime) ==
    IF current_overtime <= 0 \/ last_overtime <= 0
    THEN [ok |-> FALSE, code |-> employee.code, current_overtime |-> 0,
          last_overtime |-> 0, target_overtime |-> 0]
    ELSE [ok |-> TRUE, code |-> employee.code,
          current_overtime |-> current_overtime,
          last_overtime |-> last_overtime,
          target_overtime |-> get_target_overtime(employee.division_code)]

analyze(employee, current_overtime, last_overtime) ==
    IF current_overtime = ApiNone \/ last_overtime = ApiNone
    THEN [ok |-> FALSE, code |-> employee.code, current_overtime |-> 0,
          last_overtime |-> 0, target_overtime |-> 0]
    ELSE [ok |-> TRUE, code |-> employee.code,
          current_overtime |-> current_overtime,
          last_overtime |-> last_overtime,
          target_overtime |-> get_target_overtime(employee.division_code)]

percent_target(result) ==
    calculate_percentage(result.current_overtime, result.target_overtime)

percent_vs_last(result) ==
    calculate_percentage(result.current_overtime, result.last_overtime)

remaining_overtime(result) ==
    result.target_overtime - result.current_overtime

is_over_target(result) ==
    result.current_overtime > result.target_overtime

\* the clock and the FORCE_NOTIFY_* environment of is_force_notify_time;
\* NoClock is a run whose force window is not configured (the defaults)
NoClock ==
    [always |-> FALSE, weekday |-> 0, hour |-> 0, minute |-> 0,
     force_day |-> -1, force_hour |-> -1, force_minute |-> -1, window |-> 0]

Abs(n) == IF n < 0 THEN -n ELSE n

is_force_notify_time(k) ==
    IF k.always THEN TRUE
    ELSE /\ k.weekday = k.force_day
         /\ k.hour = k.force_hour
         /\ Abs(k.minute - k.force_minute) <= k.window

\* parse_department_email_mapping on a mapping text given as its
\* "dept:email" pairs: the addresses of dept, in the order listed
RECURSIVE MappingGet(_, _)
MappingGet(mapping_str, dept) ==
    IF mapping_str = <<>> THEN <<>>
    ELSE LET pair == Head(mapping_str)
         IN  (IF pair[1] = dept THEN <<pair[2]>> ELSE <<>>)
                 \o MappingGet(Tail(mapping_str), dept)

InSeq(x, s) == \E i \in 1..Len(s) : s[i] = x


(***************************************************************************)
(* The inputs of a run: the environment (.env), the calendar and the       *)
(* clock.  mapping_str is DEPARTMENT_EMAIL_MAPPING as its "dept:email"     *)
(* pairs; the empty text is a missing mapping.                             *)
(***************************************************************************)
Config(skip, ftime, debug, token, mapping, selfn, codes) ==
    [skip_day |-> skip, force_time |-> ftime, debug_force |-> debug,
     slack_token |-> token, mapping_str |-> mapping,
     enable_self_notify |-> selfn, enabled_codes |-> codes]

NoConfig == Config(FALSE, FALSE, FALSE, FALSE, <<>>, FALSE, {})

\* an address in a division's mapping and in ALL
MapBoth == << <<"D1", "a@x">>, <<"ALL", "a@x">> >>
\* one division routed, the other not; no ALL
MapOne == << <<"D1", "b@x">> >>
\* both divisions and ALL, an address listed in two places
MapWide == << <<"D1", "a@x">>, <<"D2", "a@x">>, <<"ALL", "b@x">> >>
\* the same address twice in one division's list, and in ALL
MapTwice == << <<"D1", "a@x">>, <<"D1", "a@x">>, <<"ALL", "a@x">> >>

\* the configurations of the runs of Spec: a working day, the force window
\* on a skip day, a skip day with the debug flag, and the two incomplete
\* messaging configurations
Configs ==
    {Config(FALSE, FALSE, FALSE, TRUE, MapOne, FALSE, {}),
     Config(TRUE, TRUE, FALSE, TRUE, MapOne, FALSE, {}),
     Config(TRUE, FALSE, TRUE, TRUE, MapOne, FALSE, {}),
     Config(FALSE, FALSE, FALSE, FALSE, MapOne, FALSE, {}),
     Config(FALSE, FALSE, FALSE, TRUE, <<>>, FALSE, {})}

\* the configuration of the runs of SpecWeek: working days, no force mode
WeekConfigs == {Config(FALSE, FALSE, FALSE, TRUE, MapOne, FALSE, {})}

\* the configurations of the single run of SpecRoute
RouteConfigs ==
    {Config(FALSE, f, FALSE, TRUE, m, s, c) :
        f \in BOOLEAN, m \in {MapBoth, MapOne, MapWide, MapTwice},
        s \in BOOLEAN, c \in {{}, {"E1"}}}
    \cup {Config(FALSE, FALSE, TRUE, TRUE, MapOne, FALSE, {}),
          Config(FALSE, FALSE, FALSE, TRUE, <<>>, FALSE, {})}

\* minutes the timesheet source answers: 50, 85, 96 and 110 percent of 600
Currents == {300, 510, 576, 660}
Lasts == {0}

\* what the timesheet source may answer for the current month, per employee
Fetches == [c \in Codes |-> Currents \cup {ApiNone}]
\* SpecWeek: E1 is at 85, 96 or 110 percent; E2's fetch fails
WeekFetches == [c \in Codes |-> IF c = "E1" THEN {510, 576, 660} ELSE {ApiNone}]

\* SpecForce: Friday or Saturday, 21:50, 21:58, 22:02 or 22:50, with the
\* force window set to Friday 21:55 and a tolerance of 0 or 10 minutes
Clocks ==
    {[always |-> a, weekday |-> w, hour |-> h, minute |-> m,
      force_day |-> 4, force_hour |-> 21, force_minute |-> 55, window |-> t] :
        a \in BOOLEAN, w \in {4, 5}, h \in {21, 22}, m \in {2, 50, 58},
        t \in {0, 10}}

ForceConfigs ==
    {Config(FALSE, FALSE, d, TRUE, MapOne, FALSE, {}) : d \in BOOLEAN}

ForceFetches == [c \in Codes |-> IF c = "E1" THEN {510, 660} ELSE {300, ApiNone}]

\* SpecSteady: E1 stays at 60, 85, 96 or 110 percent of 600, E2 at 90
SteadySheets ==
    {[c \in Codes |-> IF c = "E1" THEN m ELSE 540] : m \in {360, 510, 576, 660}}

\* SpecRoute: the source also answers 0 minutes (no record of the employee)
RouteFetches == [c \in Codes |-> Currents \cup {0, ApiNone}]

Addrs == {"a@x", "b@x"}

(***************************************************************************)
(* State.                                                                  *)
(***************************************************************************)
VARIABLES
    today,                   \* datetime.today(), a day number
    flags,                   \* the flag directory: path -> contents
    runs,                    \* runs of main() started so far
    corrupted,               \* marker files truncated so far
    admittedWk,              \* history: code -> the thresholds admitted and
                             \*   marked this ISO week, in order
    timesheet,               \* SpecSteady: code -> the minutes the source
                             \*   holds for the employee, the same at every run
    pc,                      \* position in main()
    cfg,                     \* the run's inputs
    clock,                   \* SpecForce: the run's time and force window
    fetched,                 \* history: code -> "pending", "failed" or "ok",
                             \*   the outcome of the employee's two fetches
    force_notify,            \* config['force_notify']
    idx,                     \* index of the roster employee of the loop
    results_to_save,         \* OvertimeResults of the run
    decided,                 \* code -> threshold of the run (NoThreshold: none)
    department_reports,      \* ordered dict: <<[dept, reports]>>
    notification_candidates, \* <<[name, percent]>>
    email_summary_map,       \* address -> <<[name, percent]>>
    sent_to,                 \* addresses the send loop delivered to
    pos,                     \* position in the send loop
    sendLog,                 \* every send_message call of the run
    calls,                   \* flag-store calls of the run, in order
    saved                    \* the snapshot of the run was written

persistent == <<today, flags, runs, corrupted, admittedWk, timesheet>>
perRun == <<pc, cfg, clock, force_notify, idx, fetched, results_to_save, decided,
            department_reports, notification_candidates, email_summary_map,
            sent_to, pos, sendLog, calls, saved>>
vars == <<today, flags, runs, corrupted, admittedWk, timesheet,
          pc, cfg, clock, force_notify, idx, fetched, results_to_save, decided,
          department_reports, notification_candidates, email_summary_map,
          sent_to, pos, sendLog, calls, saved>>

\* the run-local state before main() starts
FreshRun ==
    /\ cfg = NoConfig
    /\ clock = NoClock
    /\ force_notify = FALSE
    /\ fetched = [c \in Codes |-> "pending"]
    /\ idx = 1
    /\ results_to_save = <<>>
    /\ decided = [c \in Codes |-> NoThreshold]
    /\ department_reports = <<>>
    /\ notification_candidates = <<>>
    /\ email_summary_map = [a \in Addrs |-> <<>>]
    /\ sent_to = {}
    /\ pos = 1
    /\ sendLog = <<>>
    /\ calls = <<>>
    /\ saved = FALSE

Start ==
    /\ today = 0
    /\ flags = [p \in {} |-> <<>>]
    /\ runs = 0
    /\ corrupted = 0
    /\ admittedWk = [c \in Codes |-> <<>>]
    /\ pc = "idle"
    /\ FreshRun

Init ==
    /\ Start
    /\ timesheet = [c \in Codes |-> ApiNone]

\* the source holds one value for each employee through all the runs
InitSteady ==
    /\ Start
    /\ timesheet \in SteadySheets

(***************************************************************************)
(* Between runs: the clock advances, and an outside fault may leave a      *)
(* marker file empty (open(path, "w") truncates before the date is         *)
(* written).                                                               *)
(***************************************************************************)
AdvanceDay ==
    /\ pc = "idle"
    /\ \E d \in Days :
          /\ d > today
          /\ today' = d
          /\ admittedWk' =
                IF isocalendar(d) = isocalendar(today) THEN admittedWk
                ELSE [c \in Codes |-> <<>>]
    /\ UNCHANGED <<flags, runs, corrupted, timesheet>>
    /\ UNCHANGED perRun

Corrupt ==
    /\ pc = "idle"
    /\ corrupted < MaxCorrupt
    /\ \E p \in DOMAIN flags :
          /\ CanParse(flags[p])
          /\ flags' = [flags EXCEPT ![p] = <<>>]
    /\ corrupted' = corrupted + 1
    /\ UNCHANGED <<today, runs, admittedWk, timesheet>>
    /\ UNCHANGED perRun

(***************************************************************************)
(* main(), lines 257-287: the skip-day test, the environment, the force    *)
(* mode and the check of the messaging configuration.                      *)
(***************************************************************************)
\* "not slack_token or not mapping_str"
ConfigIncomplete(c) == ~c.slack_token \/ c.mapping_str = <<>>

\* a start that does not check the Slack settings
BeginUnchecked(c) ==
    /\ cfg' = c
    /\ force_notify' = (c.debug_force \/ c.force_time)
    /\ pc' = IF c.skip_day /\ ~c.force_time THEN "done" ELSE "cleanup"

Begin(c) ==
    /\ cfg' = c
    /\ force_notify' = (c.debug_force \/ c.force_time)
    /\ pc' = IF c.skip_day /\ ~c.force_time THEN "done"
             ELSE IF ConfigIncomplete(c) THEN "done"
             ELSE "cleanup"

StartRun(configs, maxRuns) ==
    /\ pc = "idle"
    /\ runs < maxRuns
    /\ \E c \in configs : Begin(c)
    /\ clock' = NoClock
    /\ runs' = runs + 1
    /\ UNCHANGED <<today, flags, corrupted, admittedWk, timesheet>>
    /\ UNCHANGED <<idx, fetched, results_to_save, decided,
                   department_reports, notification_candidates,
                   email_summary_map, sent_to, pos, sendLog, calls, saved>>

\* main() up to line 287, the force window decided by is_force_notify_time
\* on the run's clock and environment
StartRunAt(clocks, configs) ==
    /\ pc = "idle"
    /\ runs < 1
    /\ \E k \in clocks, c \in configs :
          /\ Begin([c EXCEPT !.force_time = is_force_notify_time(k)])
          /\ clock' = k
    /\ runs' = runs + 1
    /\ UNCHANGED <<today, flags, corrupted, admittedWk, timesheet>>
    /\ UNCHANGED <<idx, fetched, results_to_save, decided,
                   department_reports, notification_candidates,
                   email_summary_map, sent_to, pos, sendLog, calls, saved>>

\* the run without its cleanup call
CleanupNotCalled ==
    /\ pc = "cleanup"
    /\ pc' = "loop"
    /\ UNCHANGED persistent
    /\ UNCHANGED <<cfg, clock, force_notify, idx, fetched, results_to_save, decided,
                   department_reports, notification_candidates,
                   email_summary_map, sent_to, pos, sendLog, calls, saved>>

\* main(), line 290
Cleanup ==
    /\ pc = "cleanup"
    /\ flags' = cleanup_old_flags(flags, today)
    /\ calls' = Append(calls, "cleanup")
    /\ pc' = "loop"
    /\ UNCHANGED <<today, runs, corrupted, admittedWk, timesheet>>
    /\ UNCHANGED <<cfg, clock, force_notify, idx, fetched, results_to_save, decided,
                   department_reports, notification_candidates,
                   email_summary_map, sent_to, pos, sendLog, saved>>

(***************************************************************************)
(* main(), lines 305-356: one roster employee.                             *)
(***************************************************************************)
\* the already_notified_this_week calls should_notify makes, in order
RECURSIVE Lookups(_, _, _, _, _)
Lookups(i, pct, employee_code, fl, now) ==
    IF i > Len(NOTIFY_THRESHOLDS) THEN <<>>
    ELSE LET threshold == NOTIFY_THRESHOLDS[i]
         IN  IF pct < threshold
             THEN Lookups(i + 1, pct, employee_code, fl, now)
             ELSE IF threshold >= DEPT_NOTIFY_FORCE_THRESHOLD THEN <<>>
             ELSE IF ~already_notified_this_week(fl, employee_code, threshold, now)
             THEN <<"exists">>
             ELSE <<"exists">> \o Lookups(i + 1, pct, employee_code, fl, now)

\* the decision without the force branch
DecideIgnoringForce(force, pct, employee_code, fl, now) ==
    should_notify(pct, employee_code, fl, now)

\* line 310: "100 if config['force_notify'] else should_notify(...)"
Decide(force, pct, employee_code, fl, now) ==
    IF force THEN 100 ELSE should_notify(pct, employee_code, fl, now)

\* lines 315-317: department_reports[dept].append(report)
AddReport(reports, dept, report) ==
    IF \E i \in 1..Len(reports) : reports[i].dept = dept
    THEN [i \in 1..Len(reports) |->
            IF reports[i].dept = dept
            THEN [reports[i] EXCEPT !.reports = Append(@, report)]
            ELSE reports[i]]
    ELSE Append(reports, [dept |-> dept, reports |-> <<report>>])

\* lines 323-326: the entries one employee adds for one address
SummaryAdds(mapping_str, division_code, email) ==
    Len(SelectSeq(MappingGet(mapping_str, division_code) \o
                  MappingGet(mapping_str, "ALL"),
                  LAMBDA a : a = email))

RECURSIVE Repeat(_, _)
Repeat(x, n) == IF n = 0 THEN <<>> ELSE <<x>> \o Repeat(x, n - 1)

AddSummaries(summary, mapping_str, employee, entry) ==
    [a \in DOMAIN summary |->
        summary[a] \o Repeat(entry, SummaryAdds(mapping_str,
                                                employee.division_code, a))]

\* lines 334-339: should_force_notify_self or should_regular_notify_self
\* a self notification that knows only the forced threshold
NotifiesSelfForcedOnly(c, employee, pct) ==
    /\ c.enable_self_notify
    /\ employee.email # ""
    /\ pct >= SELF_NOTIFY_FORCE_THRESHOLD

NotifiesSelf(c, employee, pct) ==
    /\ c.enable_self_notify
    /\ employee.email # ""
    /\ \/ pct >= SELF_NOTIFY_FORCE_THRESHOLD
       \/ employee.code \in c.enabled_codes

EmployeeStep(fetch) ==
    /\ pc = "loop"
    /\ idx <= Len(employees)
    /\ \E cur \in fetch[employees[idx].code], last \in Lasts \cup {ApiNone},
          selfOk \in BOOLEAN :
        LET employee == employees[idx]
            result == analyze(employee, cur, last)
            pct == percent_target(result)
            threshold == Decide(force_notify, pct, employee.code, flags, today)
            report == [code |-> employee.code, percent |-> pct]
        IN
          /\ fetched' = [fetched EXCEPT ![employee.code] =
                            IF cur = ApiNone \/ last = ApiNone
                            THEN "failed" ELSE "ok"]
          /\ IF ~result.ok
            THEN UNCHANGED <<flags, admittedWk, results_to_save, decided,
                             department_reports, notification_candidates,
                             email_summary_map, sendLog, calls>>
            ELSE
              /\ results_to_save' = Append(results_to_save, result)
              /\ decided' = [decided EXCEPT ![employee.code] = threshold]
              /\ calls' = calls
                    \o (IF force_notify THEN <<>>
                        ELSE Lookups(1, pct, employee.code, flags, today))
                    \o (IF threshold # NoThreshold THEN <<"set">> ELSE <<>>)
              /\ IF threshold # NoThreshold
                 THEN
                   /\ department_reports' =
                        AddReport(department_reports, employee.division_code,
                                  report)
                   /\ notification_candidates' =
                        Append(notification_candidates, report)
                   /\ flags' = set_notified_flag_today(flags, employee.code,
                                                       threshold, today)
                   /\ admittedWk' =
                        [admittedWk EXCEPT ![employee.code] =
                            Append(@, threshold)]
                   /\ email_summary_map' =
                        AddSummaries(email_summary_map, cfg.mapping_str,
                                     employee, report)
                   /\ sendLog' =
                        IF NotifiesSelf(cfg, employee, pct)
                        THEN Append(sendLog,
                                    [to |-> employee.email, kind |-> "self",
                                     reports |-> <<report>>, ok |-> selfOk])
                        ELSE sendLog
                 ELSE UNCHANGED <<flags, admittedWk, department_reports,
                                  notification_candidates, email_summary_map,
                                  sendLog>>
    /\ idx' = idx + 1
    /\ UNCHANGED <<today, runs, corrupted, timesheet>>
    /\ UNCHANGED <<pc, cfg, clock, force_notify, sent_to, pos, saved>>

\* lines 358-366: the snapshot, then the send loop if anyone is reported
SaveResults ==
    /\ pc = "loop"
    /\ idx > Len(employees)
    /\ saved' = TRUE
    /\ pc' = IF department_reports = <<>> THEN "done" ELSE "send"
    /\ UNCHANGED persistent
    /\ UNCHANGED <<cfg, clock, force_notify, idx, fetched, results_to_save, decided,
                   department_reports, notification_candidates,
                   email_summary_map, sent_to, pos, sendLog, calls>>

(***************************************************************************)
(* main(), lines 366-398: the send loop, one step per (division,           *)
(* recipient) of the nested loops.                                         *)
(***************************************************************************)
\* line 371: recipients = dept_email_mappings.get(dept, []) + all_recipients
Recipients(mapping_str, dept) ==
    MappingGet(mapping_str, dept) \o MappingGet(mapping_str, "ALL")

\* the (dept, email) pairs the nested loops of lines 370-372 visit, in order
RECURSIVE SendPlan(_, _, _)
SendPlan(mapping_str, reports, i) ==
    IF i > Len(reports) THEN <<>>
    ELSE LET recipients == Recipients(mapping_str, reports[i].dept)
         IN  [j \in 1..Len(recipients) |-> <<reports[i].dept, recipients[j]>>]
                 \o SendPlan(mapping_str, reports, i + 1)

\* the reports of a division once per listing of email among its recipients
RECURSIVE UserReportsPerListing(_, _, _, _)
UserReportsPerListing(mapping_str, reports, email, i) ==
    IF i > Len(reports) THEN <<>>
    ELSE LET listed == SelectSeq(MappingGet(mapping_str, reports[i].dept) \o
                                 MappingGet(mapping_str, "ALL"),
                                 LAMBDA a : a = email)
         IN  [k \in 1..(Len(listed) * Len(reports[i].reports)) |->
                 reports[i].reports[((k - 1) % Len(reports[i].reports)) + 1]]
                 \o UserReportsPerListing(mapping_str, reports, email, i + 1)

\* lines 374-377: the reports of every division that routes to email
RECURSIVE UserReports(_, _, _, _)
UserReports(mapping_str, reports, email, i) ==
    IF i > Len(reports) THEN <<>>
    ELSE (IF \/ InSeq(email, MappingGet(mapping_str, reports[i].dept))
             \/ InSeq(email, MappingGet(mapping_str, "ALL"))
          THEN reports[i].reports ELSE <<>>)
             \o UserReports(mapping_str, reports, email, i + 1)

\* the test without the sent_to check
ShouldSendAlways(email, sent, user_reports) == user_reports # <<>>

\* lines 373 and 379: "email not in sent_to", then "if user_reports"
ShouldSend(email, sent, user_reports) ==
    email \notin sent /\ user_reports # <<>>

SendStep ==
    /\ pc = "send"
    /\ LET plan == SendPlan(cfg.mapping_str, department_reports, 1)
       IN  /\ pos <= Len(plan)
           /\ LET email == plan[pos][2]
                  user_reports == UserReports(cfg.mapping_str,
                                              department_reports, email, 1)
              IN  IF ShouldSend(email, sent_to, user_reports)
                  THEN \E success \in BOOLEAN :
                         /\ sendLog' = Append(sendLog,
                                [to |-> email, kind |-> "dept",
                                 reports |-> user_reports, ok |-> success])
                         /\ sent_to' = IF success THEN sent_to \cup {email}
                                       ELSE sent_to
                  ELSE UNCHANGED <<sendLog, sent_to>>
    /\ pos' = pos + 1
    /\ UNCHANGED persistent
    /\ UNCHANGED <<pc, cfg, clock, force_notify, idx, fetched, results_to_save, decided,
                   department_reports, notification_candidates,
                   email_summary_map, calls, saved>>

\* lines 398-407: the loop is over; the per-recipient summaries are logged
SendDone ==
    /\ pc = "send"
    /\ pos > Len(SendPlan(cfg.mapping_str, department_reports, 1))
    /\ pc' = "done"
    /\ UNCHANGED persistent
    /\ UNCHANGED <<cfg, clock, force_notify, idx, fetched, results_to_save, decided,
                   department_reports, notification_candidates,
                   email_summary_map, sent_to, pos, sendLog, calls, saved>>

\* main() returns; the process exits and only the flag directory remains
EndRun ==
    /\ pc = "done"
    /\ pc' = "idle"
    /\ cfg' = NoConfig
    /\ clock' = NoClock
    /\ force_notify' = FALSE
    /\ fetched' = [c \in Codes |-> "pending"]
    /\ idx' = 1
    /\ results_to_save' = <<>>
    /\ decided' = [c \in Codes |-> NoThreshold]
    /\ department_reports' = <<>>
    /\ notification_candidates' = <<>>
    /\ email_summary_map' = [a \in Addrs |-> <<>>]
    /\ sent_to' = {}
    /\ pos' = 1
    /\ sendLog' = <<>>
    /\ calls' = <<>>
    /\ saved' = FALSE
    /\ UNCHANGED persistent

Next ==
    \/ AdvanceDay
    \/ Corrupt
    \/ StartRun(Configs, MaxRuns)
    \/ Cleanup
    \/ EmployeeStep(Fetches)
    \/ SaveResults
    \/ SendStep
    \/ SendDone
    \/ EndRun

Spec == Init /\ [][Next]_vars

(***************************************************************************)
(* SpecWeek: up to WeekRuns runs on working days, without force mode, to   *)
(* follow one employee's markers through a week.                           *)
(***************************************************************************)
NextWeek ==
    \/ AdvanceDay
    \/ StartRun(WeekConfigs, WeekRuns)
    \/ Cleanup
    \/ EmployeeStep(WeekFetches)
    \/ SaveResults
    \/ SendStep
    \/ SendDone
    \/ EndRun

SpecWeek == Init /\ [][NextWeek]_vars

(***************************************************************************)
(* SpecRoute: one run, over the recipient mappings and the self-notify     *)
(* settings.                                                               *)
(***************************************************************************)
NextRoute ==
    \/ StartRun(RouteConfigs, 1)
    \/ Cleanup
    \/ EmployeeStep(RouteFetches)
    \/ SaveResults
    \/ SendStep
    \/ SendDone
    \/ EndRun

SpecRoute == Init /\ [][NextRoute]_vars

\* the runs of SpecWeek on a source that answers the same at every run
SteadyFetches == [c \in Codes |-> {timesheet[c]}]

NextSteady ==
    \/ AdvanceDay
    \/ StartRun(WeekConfigs, WeekRuns)
    \/ Cleanup
    \/ EmployeeStep(SteadyFetches)
    \/ SaveResults
    \/ SendStep
    \/ SendDone
    \/ EndRun

SpecSteady == InitSteady /\ [][NextSteady]_vars

\* one run at a given time of the week, with a force window configured
NextForce ==
    \/ StartRunAt(Clocks, ForceConfigs)
    \/ Cleanup
    \/ EmployeeStep(ForceFetches)
    \/ SaveResults
    \/ SendStep
    \/ SendDone
    \/ EndRun

SpecForce == Init /\ [][NextForce]_vars

(***************************************************************************)
(* Vocabulary of the properties.                                           *)
(***************************************************************************)
HasResult(c) ==
    \E i \in 1..Len(results_to_save) : results_to_save[i].code = c

ResultOf(c) ==
    results_to_save[CHOOSE i \in 1..Len(results_to_save) :
                        results_to_save[i].code = c]

PercentOf(c) == percent_target(ResultOf(c))

Notified(c) == decided[c] # NoThreshold

ReportOf(c) == [code |-> c, percent |-> PercentOf(c)]

DivisionOf(c) ==
    employees[CHOOSE i \in 1..Len(employees) : employees[i].code = c].division_code

ThisWeek(path) ==
    /\ path[2] = isocalendar(today).year
    /\ path[3] = isocalendar(today).week

CountIn(x, s) == Cardinality({k \in 1..Len(s) : s[k] = x})

\* the successful sends of one kind ("dept" or "self") to an address
DeliveredTo(a, kind) ==
    {i \in 1..Len(sendLog) :
        sendLog[i].to = a /\ sendLog[i].kind = kind /\ sendLog[i].ok}

\* c's division mapping or the ALL mapping lists a
Routed(c, a) ==
    \/ InSeq(a, MappingGet(cfg.mapping_str, DivisionOf(c)))
    \/ InSeq(a, MappingGet(cfg.mapping_str, "ALL"))

\* a successful send of the run carried c's report
ReportDelivered(c) ==
    \E i \in 1..Len(sendLog) :
        sendLog[i].ok /\ \E k \in 1..Len(sendLog[i].reports) :
                            sendLog[i].reports[k].code = c

(***************************************************************************)
(* C1.  Whenever should_notify (force mode off) returns a threshold, it is *)
(* the highest threshold of {60,70,80,90,100} that the percent-of-target   *)
(* has crossed.  The code returns the lowest threshold not yet marked:     *)
(* at 85 percent with no markers it returns 60.                            *)
(***************************************************************************)
C1_ReturnsHighestCrossed ==
    \A c \in Codes :
        (HasResult(c) /\ ~force_notify /\ Notified(c)) =>
            /\ decided[c] \in Thresholds
            /\ decided[c] <= PercentOf(c)
            /\ \A t \in Thresholds : t <= PercentOf(c) => t <= decided[c]

(***************************************************************************)
(* C2.  Critical bypass: with force mode off, every percent-of-target >=   *)
(* DEPT_NOTIFY_FORCE_THRESHOLD (95) makes should_notify return a           *)
(* threshold, whatever markers exist.  At 96 percent with 60, 70, 80 and   *)
(* 90 marked this week the code returns nothing: 95 is no member of        *)
(* NOTIFY_THRESHOLDS and 100 is not reached.                               *)
(***************************************************************************)
C2_CriticalAlwaysNotifies ==
    \A c \in Codes :
        (HasResult(c) /\ ~force_notify
            /\ PercentOf(c) >= DEPT_NOTIFY_FORCE_THRESHOLD) => Notified(c)

(***************************************************************************)
(* C3.  In a run with force_notify, every employee with an OvertimeResult  *)
(* is admitted with threshold 100, whatever the percent and the markers,   *)
(* and should_notify's lookups are never made.                             *)
(***************************************************************************)
C3_ForceAdmitsAllAtMax ==
    force_notify =>
        /\ \A c \in Codes :
              HasResult(c) =>
                 /\ decided[c] = NOTIFY_THRESHOLDS[Len(NOTIFY_THRESHOLDS)]
                 /\ CountIn(ReportOf(c), notification_candidates) = 1
        /\ ~InSeq("exists", calls)

\* a forced run admits an employee below 60 percent who already holds this
\* week's 60 marker
C3_Witness ==
    /\ force_notify
    /\ \E c \in Codes :
          /\ HasResult(c)
          /\ PercentOf(c) < 60
          /\ decided[c] = 100
          /\ already_notified_this_week(flags, c, 60, today)

(***************************************************************************)
(* C4.  Weekly dedup: a threshold below 95 that was admitted and marked    *)
(* for an employee is not admitted again for that employee in the same ISO *)
(* (year, week), in this run or a later one, at any percent (in particular *)
(* at the same or a lower one).  admittedWk lists the week's admissions.   *)
(***************************************************************************)
C4_NoRepeatBelowCritical ==
    \A c \in Codes :
        \A i, j \in 1..Len(admittedWk[c]) :
            (i < j /\ admittedWk[c][i] = admittedWk[c][j]) =>
                admittedWk[c][i] >= DEPT_NOTIFY_FORCE_THRESHOLD

\* a second run of the week, force mode off, meets the 60 marker at a percent
\* >= 60 and does not return 60
C4_Witness ==
    \E c \in Codes :
        /\ runs = 2
        /\ ~force_notify
        /\ HasResult(c)
        /\ PercentOf(c) >= 60
        /\ Len(admittedWk[c]) >= 2
        /\ admittedWk[c][1] = 60
        /\ decided[c] # 60

(***************************************************************************)
(* C5.  A marker for (employee, threshold, current ISO year and week)      *)
(* implies that a notification about that employee was delivered in that   *)
(* week.  Stated at the end of the first run, when every marker is that    *)
(* run's: the code marks inside the employee loop, before any send and     *)
(* whatever the sends return.                                              *)
(***************************************************************************)
C5_MarkerImpliesDelivered ==
    (pc = "done" /\ runs = 1) =>
        \A path \in DOMAIN flags :
            ThisWeek(path) => ReportDelivered(path[1])

C8_CleanupSelectiveIdempotent ==
    [][(pc = "cleanup" /\ pc' = "loop") =>
          /\ flags' = [path \in {q \in DOMAIN flags : ThisWeek(q)} |->
                          flags[path]]
          /\ cleanup_old_flags(flags', today) = flags']_vars

(***************************************************************************)
(* C9.  After cleanup_old_flags returns, no marker with an unparseable     *)
(* date remains in the store.  The code logs a warning and continues with  *)
(* the next file; the unparseable marker is never removed.                 *)
(***************************************************************************)
C9_NoCorruptMarkerAfterCleanup ==
    (pc = "loop" /\ idx = 1) =>
        \A path \in DOMAIN flags : CanParse(flags[path])

(***************************************************************************)
(* C10.  In a run that reaches the employee loop, cleanup_old_flags runs   *)
(* exactly once, and before every already_notified_this_week and           *)
(* set_notified_flag_today call of the run.                                *)
(***************************************************************************)
C10_CleanupOnceAndFirst ==
    /\ pc \in {"loop", "send"} => calls # <<>>
    /\ calls # <<>> =>
          /\ calls[1] = "cleanup"
          /\ \A i \in 2..Len(calls) : calls[i] # "cleanup"

\* a finished run that looked markers up and set one
C10_Witness ==
    /\ pc = "done"
    /\ InSeq("exists", calls)
    /\ InSeq("set", calls)
    /\ CountIn("cleanup", calls) = 1

(***************************************************************************)
(* C11.  When a send to a recipient fails, the run goes on and does not    *)
(* call send for that recipient again in the same run.  The code adds an   *)
(* address to sent_to only on success, so an address listed again (in the  *)
(* division mapping and in ALL, or for a second division) is sent to       *)
(* again after a failure.                                                  *)
(***************************************************************************)
C11_NoRetryAfterFailure ==
    \A i, j \in 1..Len(sendLog) :
        (/\ i < j
         /\ sendLog[i].kind = "dept"
         /\ ~sendLog[i].ok
         /\ sendLog[j].kind = "dept") => sendLog[j].to # sendLog[i].to


(***************************************************************************)
(* C12: an employee whose current or previous fetch fails gets no          *)
(* OvertimeResult, no marker, no report and no notification in the run,    *)
(* while the loop goes on to every other employee: each employee whose two *)
(* fetches succeed (an answer of 0 minutes included) gets exactly one      *)
(* OvertimeResult and the decision of the run, and once the run is over    *)
(* every reported employee with a recipient was put in a message.          *)
(* (SpecRoute: one run, starting from an empty marker store.)              *)
(***************************************************************************)
CountResults(c) ==
    Cardinality({i \in 1..Len(results_to_save) : results_to_save[i].code = c})

Mentions(c, reports) ==
    \E k \in 1..Len(reports) : reports[k].code = c

NothingFor(c) ==
    /\ CountResults(c) = 0
    /\ decided[c] = NoThreshold
    /\ \A path \in DOMAIN flags : path[1] # c
    /\ \A k \in 1..Len(department_reports) :
          ~Mentions(c, department_reports[k].reports)
    /\ ~Mentions(c, notification_candidates)
    /\ \A a \in Addrs : ~Mentions(c, email_summary_map[a])
    /\ \A i \in 1..Len(sendLog) :
          ~Mentions(c, sendLog[i].reports)

C12_FetchFailureSkipsOnlyThatEmployee ==
    /\ \A i \in 1..Len(employees) :
          fetched[employees[i].code] # "pending" <=> (pc # "idle" /\ i < idx)
    /\ \A c \in Codes :
          /\ fetched[c] = "failed" => NothingFor(c)
          /\ fetched[c] = "ok" =>
                /\ CountResults(c) = 1
                /\ decided[c] = Decide(force_notify, PercentOf(c), c,
                                       [p \in {} |-> <<>>], today)
                /\ (pc = "done" /\ Notified(c)
                       /\ \E a \in Addrs : Routed(c, a))
                     => \E k \in 1..Len(sendLog) :
                           /\ sendLog[k].kind = "dept"
                           /\ Mentions(c, sendLog[k].reports)

C12_Witness ==
    /\ pc = "done"
    /\ fetched["E1"] = "failed"
    /\ fetched["E2"] = "ok"
    /\ ResultOf("E2").current_overtime = 0
    /\ ReportDelivered("E2")


(***************************************************************************)
(* C13: a run whose Slack token or recipient mapping is missing stops      *)
(* before any side effect: it goes from its start straight to its end, and *)
(* from its start to its end no marker is pruned or created (the marker    *)
(* store is unchanged), no flag-store call is made, no timesheet is        *)
(* fetched, no snapshot is written and no message is sent.                 *)
(***************************************************************************)
NoSideEffect ==
    /\ flags' = flags
    /\ admittedWk' = admittedWk
    /\ calls' = <<>>
    /\ \A c \in Codes : fetched'[c] = "pending"
    /\ results_to_save' = <<>>
    /\ ~saved'
    /\ sendLog' = <<>>

Aborts(c) == ~(c.skip_day /\ ~c.force_time) /\ ConfigIncomplete(c)

C13_ConfigErrorNoSideEffect ==
    [][/\ (pc = "idle" /\ pc' # "idle" /\ Aborts(cfg'))
          => (pc' = "done" /\ NoSideEffect)
       /\ (pc # "idle" /\ Aborts(cfg))
          => (pc = "done" /\ pc' = "idle" /\ NoSideEffect)]_vars

\* an aborted run has ended and a marker of an earlier week is still there
C13_Witness ==
    /\ pc = "done"
    /\ Aborts(cfg)
    /\ \E path \in DOMAIN flags :
          CanParse(flags[path]) /\ IsRemoved(flags[path], today)


(***************************************************************************)
(* C14: end to end, with target 600 and current 660 minutes and no force   *)
(* mode, the first run of the week (no markers yet) computes 110 percent,  *)
(* over target, remaining -60 and decides threshold 100 for the employee,  *)
(* and on the marker store that run leaves, a re-run in the same ISO week  *)
(* at 90 percent returns nothing for the employee.                         *)
(***************************************************************************)
SameWeek(d, e) == isocalendar(d) = isocalendar(e)

C14_EndToEndAtOneHundredTen ==
    \A c \in Codes :
        (/\ runs = 1
         /\ ~force_notify
         /\ HasResult(c)
         /\ ResultOf(c).current_overtime = 660
         /\ ResultOf(c).target_overtime = 600)
        => /\ PercentOf(c) = 110
           /\ is_over_target(ResultOf(c))
           /\ remaining_overtime(ResultOf(c)) = -60
           /\ decided[c] = 100
           /\ \A d \in Days :
                 (d >= today /\ SameWeek(d, today))
                 => should_notify(calculate_percentage(540, 600), c,
                                  flags, d) = NoThreshold


(***************************************************************************)
(* C15: with target 600, current 300 and previous 0 minutes the percent    *)
(* against the previous month is 0 and the percent of target is 50; as     *)
(* stated, the first evaluation of the week (no markers, no force mode)    *)
(* returns threshold 50.                                                   *)
(***************************************************************************)
HalfOfTarget(c) ==
    /\ HasResult(c)
    /\ ResultOf(c).current_overtime = 300
    /\ ResultOf(c).last_overtime = 0
    /\ ResultOf(c).target_overtime = 600
    /\ ~force_notify

\* the run found no marker of c for this week: the only one there can be
\* now is that of the run's own decision
FirstEvaluation(c) ==
    \A path \in DOMAIN flags :
        (path[1] = c /\ ThisWeek(path)) => path[4] = decided[c]

C15_FiftyPercentReturnsFifty ==
    \A c \in Codes :
        (HalfOfTarget(c) /\ FirstEvaluation(c))
        => /\ percent_vs_last(ResultOf(c)) = 0
           /\ PercentOf(c) = 50
           /\ decided[c] = 50

\* C15 as the code has it: 50 percent is below the lowest threshold, so the
\* evaluation returns nothing and no report or message follows
C15_FiftyPercentReturnsNothing ==
    \A c \in Codes :
        HalfOfTarget(c)
        => /\ percent_vs_last(ResultOf(c)) = 0
           /\ PercentOf(c) = 50
           /\ decided[c] = NoThreshold
           /\ ~Mentions(c, notification_candidates)
           /\ \A i \in 1..Len(sendLog) : ~Mentions(c, sendLog[i].reports)

C15_Witness ==
    /\ pc = "done"
    /\ HalfOfTarget("E1")
    /\ FirstEvaluation("E1")
    /\ saved


(***************************************************************************)
(* C16: force mode is on for the whole run exactly when an always-on       *)
(* override is set (FORCE_NOTIFY_ALWAYS or DEBUG_FORCE_NOTIFY) or the      *)
(* run's time is on the configured weekday and within the tolerance, in    *)
(* minutes, of the configured hour:minute, windows that reach across an    *)
(* hour boundary included; every employee of the run is decided with that  *)
(* one value.                                                              *)
(***************************************************************************)
MinuteOfDay(hour, minute) == hour * 60 + minute

InWindow(k) ==
    /\ k.weekday = k.force_day
    /\ Abs(MinuteOfDay(k.hour, k.minute)
             - MinuteOfDay(k.force_hour, k.force_minute)) <= k.window

ForceAll == clock.always \/ cfg.debug_force \/ InWindow(clock)

C16_ForceExactlyInWindow ==
    pc # "idle" =>
        /\ force_notify = ForceAll
        /\ \A c \in Codes :
              HasResult(c) =>
                  decided[c] = Decide(ForceAll, PercentOf(c), c,
                                      [p \in {} |-> <<>>], today)


(***************************************************************************)
(* C17: as stated, every employee with an OvertimeResult in the run gets   *)
(* an individually addressed message whenever self-notify is enabled, the  *)
(* employee has a contact address and the percent of target is at or above *)
(* the forced-self threshold or the code is in the allow-list.             *)
(***************************************************************************)
EmailOf(c) ==
    employees[CHOOSE i \in 1..Len(employees) : employees[i].code = c].email

SelfDue(c) ==
    /\ cfg.enable_self_notify
    /\ EmailOf(c) # ""
    /\ \/ PercentOf(c) >= SELF_NOTIFY_FORCE_THRESHOLD
       \/ c \in cfg.enabled_codes

\* the individually addressed messages of the run that carry c's report
SelfSends(c) ==
    {i \in 1..Len(sendLog) :
        /\ sendLog[i].kind = "self"
        /\ sendLog[i].to = EmailOf(c)
        /\ sendLog[i].reports = <<ReportOf(c)>>}

C17_SelfNotifyForEveryResult ==
    \A c \in Codes :
        (HasResult(c) /\ SelfDue(c)) => SelfSends(c) # {}

\* C17 as the code has it: the individually addressed message is part of
\* the handling of an admitted employee.  An employee the run admits gets
\* exactly one when the self-notify conditions hold, whatever becomes of
\* the division-routed sends; an employee the run does not admit gets none.
C17_SelfNotifyForEveryAdmitted ==
    \A c \in Codes :
        HasResult(c) =>
            Cardinality(SelfSends(c)) =
                IF Notified(c) /\ SelfDue(c) THEN 1 ELSE 0

C17_Witness ==
    /\ pc = "done"
    /\ Notified("E1")
    /\ PercentOf("E1") < SELF_NOTIFY_FORCE_THRESHOLD
    /\ SelfDue("E1")
    /\ SelfSends("E1") # {}
    /\ \E i \in 1..Len(sendLog) : sendLog[i].kind = "dept" /\ ~sendLog[i].ok
    /\ ~ReportDelivered("E1")


(***************************************************************************)
(* C18: without force mode, should_notify(p, e) returns the lowest         *)
(* threshold t of {60, 70, 80, 90, 100} with t <= p such that t >= 95 or   *)
(* (e, t) has no marker of the current week, and nothing exactly when      *)
(* there is no such t (p < 60, or every threshold <= p is below 95 and     *)
(* marked); an evaluation that returns nothing only looks markers up: the  *)
(* marker store is the same after it.                                      *)
(***************************************************************************)
Marked(c, t) ==
    <<c, isocalendar(today).year, isocalendar(today).week, t>> \in DOMAIN flags

Qualifying(p, c) ==
    {t \in {60, 70, 80, 90, 100} : t <= p /\ (t >= 95 \/ ~Marked(c, t))}

ScanResult(p, c) ==
    /\ \A t \in Qualifying(p, c) :
          (\A u \in Qualifying(p, c) : t <= u)
          => should_notify(p, c, flags, today) = t
    /\ should_notify(p, c, flags, today) = NoThreshold
          <=> Qualifying(p, c) = {}
    /\ Qualifying(p, c) = {}
          <=> \/ p < 60
              \/ \A t \in {60, 70, 80, 90, 100} :
                    t <= p => (t < 95 /\ Marked(c, t))

OnlyLookups(s) == \A k \in 1..Len(s) : s[k] # "set"

C19_MarkerNeverUpdated ==
    [][pc # "idle" =>
          \A path \in DOMAIN flags \cap DOMAIN flags' :
              CanParse(flags[path]) => flags'[path] = flags[path]]_vars


(***************************************************************************)
(* C20: at the end of a run, the summary of every recipient address holds  *)
(* the entry of every notified employee routed to the address (by the      *)
(* division mapping or by the ALL mapping) exactly once, also when the     *)
(* address is listed in both mappings, and no entry of any other employee. *)
(***************************************************************************)
C20_SummaryDeduplicated ==
    (pc = "done" /\ ~Aborts(cfg)) =>
        \A a \in Addrs : \A c \in Codes :
            IF HasResult(c) /\ Notified(c) /\ Routed(c, a)
            THEN CountIn(ReportOf(c), email_summary_map[a]) = 1
            ELSE ~Mentions(c, email_summary_map[a])


(***************************************************************************)
(* C21: stepwise escalation.  For an employee who stays at one percent p   *)
(* of target through an ISO week, without force mode, the runs of the week *)
(* admit the thresholds <= p in increasing order, one per run and 60       *)
(* first, each once; when the thresholds of {60, 70, 80, 90} that are <= p *)
(* have all been admitted, every further run of the week returns nothing   *)
(* if p < 100 and admits 100 every time if p >= 100.                       *)
(***************************************************************************)
SteadyPercent(c) == calculate_percentage(timesheet[c], get_target_overtime(DivisionOf(c)))

\* the thresholds of {60, 70, 80, 90} that p has crossed
Rungs(p) == Cardinality({t \in {60, 70, 80, 90} : t <= p})

\* the k-th admission of the week at percent p
Escalation(p, k) ==
    IF k <= Rungs(p) THEN <<60, 70, 80, 90>>[k] ELSE 100

\* the admissions of the week so far are the first of the escalation
EscalatedSoFar(c) ==
    LET p == SteadyPercent(c)
        n == Len(admittedWk[c])
    IN  /\ \A k \in 1..n : admittedWk[c][k] = Escalation(p, k)
        /\ p < 100 => n <= Rungs(p)

\* the run's evaluation of the employee of the loop admits the next
\* threshold of the escalation, or nothing when none is left
NextOfEscalation ==
    LET c == employees[idx].code
        p == SteadyPercent(c)
        n == Len(admittedWk[c])
    IN  (/\ pc = "loop"
         /\ idx' = idx + 1
         /\ Len(results_to_save') = Len(results_to_save) + 1)
        => IF p < 100 /\ n = Rungs(p)
           THEN decided'[c] = NoThreshold /\ admittedWk'[c] = admittedWk[c]
           ELSE /\ decided'[c] = Escalation(p, n + 1)
                /\ admittedWk'[c] = Append(admittedWk[c], decided'[c])

C22_LookupIffSetThisWeek ==
    \A c \in Codes : \A t \in Thresholds :
        /\ already_notified_this_week(flags, c, t, today)
              <=> InSeq(t, admittedWk[c])
        /\ already_notified_this_week(flags, c, t, today)
              => \A path \in DOMAIN flags :
                    (path[1] = c /\ path[4] = t /\ ~ThisWeek(path))
                    => path # get_flag_path(c, t, today)

\* the cleanup of a run in week 1 of the next year has left a marker of
\* week 1 of the year before, and the lookup does not see it
C22_Witness ==
    /\ pc = "loop"
    /\ \E path \in DOMAIN flags :
          /\ path[3] = isocalendar(today).week
          /\ path[2] # isocalendar(today).year
          /\ ~already_notified_this_week(flags, path[1], path[4], today)

=============================================================================
